---- MODULE Spec2Model ----
(***************************************************************************)
(* DynaMix object lifecycle (src/src/object.cpp): an object holds a        *)
(* pointer to its object_type_info (the set of mixins it is composed of),  *)
(* a pointer to its array of mixin_data_in_object cells and an optional    *)
(* object_allocator.  The operations modelled are change_type_from (the    *)
(* retyping engine), make_mixin, delete_mixin, clear, usurp (move),        *)
(* copy_from, copy_matching_from, copyable, has and get.                   *)
(***************************************************************************)
EXTENDS Integers, FiniteSets, Sequences, TLC

\* ---- bounds of the model ------------------------------------------------
NumMixins == 3      \* mixins registered in the domain

\* ---- constants of the program -------------------------------------------
nullptr == 0
NULL_MIXIN_DATA_INDEX == 0
DEFAULT_MSG_IMPL_INDEX == 1
MIXIN_INDEX_OFFSET == 2
DefaultValue == 0   \* the value a default constructor leaves

Mixins == 0..(NumMixins - 1)
DYNAMIX_MAX_MIXINS == NumMixins
\* the ids a caller may pass to has/get, some of them out of range
QueryIds == 0..(DYNAMIX_MAX_MIXINS + 1)
\* a mixin's data: the value its default constructor leaves, and another one
Values == {DefaultValue, 1}
\* every operation of object.cpp involves `this` and at most one other object
Objects == {1, 2}
\* one user-supplied object_allocator; nullptr stands for "none"
Allocators == {1}
AllocOrNull == Allocators \cup {nullptr}

\* An object_type_info is identified by the set of mixin ids it holds.
Types == SUBSET Mixins
null == {}

VARIABLES
    _type_info,     \* object -> its object_type_info
    _mixin_data,    \* object -> its array of cells
    _allocator,     \* object -> its object_allocator or nullptr
    num_objects,    \* object_type_info -> live-object counter
    num_mixins,     \* mixin id -> live-instance counter
    caps,           \* mixin id -> which copy functions the mixin_type_info has
    lastOp          \* what the last operation did (history, not program state)

vars == <<_type_info, _mixin_data, _allocator, num_objects, num_mixins, caps, lastOp>>

\* ---- object_type_info ---------------------------------------------------
has_mixin(type, id) == id \in type

\* _compact_mixins of every type: its mixins, in ascending id order (f @@ <<>>
\* is f, as a table)
_compact_mixins ==
    [type \in Types |->
        [i \in 1..Cardinality(type) |->
            CHOOSE id \in type : Cardinality({j \in type : j < id}) = i - 1]
        @@ <<>>] @@ <<>>
compact_mixins(type) == _compact_mixins[type]

\* _mixin_indices of every type: the cell index of each mixin, 0 for a mixin
\* that is not in the type
_mixin_indices ==
    [type \in Types |->
        [id \in Mixins |->
            IF id \in type
              THEN MIXIN_INDEX_OFFSET + Cardinality({j \in type : j < id})
              ELSE NULL_MIXIN_DATA_INDEX]
        @@ <<>>] @@ <<>>
mixin_index(type, id) == _mixin_indices[type][id]

\* ---- mixin_data_in_object -----------------------------------------------
\* buffer: "null" (nullptr), "heap" (from a mixin allocator), "virt" (the
\* object's own _default_impl_virtual_mixin_data), "user" (the caller's, given
\* to move_mixin) or "raw" (the caller's, given to hard_replace_mixin); value:
\* the mixin's data;
\* object: the back-pointer written in front of the data; by: the allocator
\* the buffer came from (nullptr: the mixin_type_info's own allocator).
null_data == "null"
NullCell == [buffer |-> null_data, value |-> DefaultValue, object |-> nullptr,
             by |-> nullptr]

set_buffer(cell, buf) == [cell EXCEPT !.buffer = buf]
set_object(cell, obj) == [cell EXCEPT !.object = obj]
clear_cell(cell) == NullCell
buffer(cell) == cell.buffer
\* mixin(): the data pointer (buffer + offset), null exactly when no buffer is set
mixin(cell) == cell.buffer

\* The array an object points to.  `sentinel` tells the shared static
\* null_mixin_data from an array obtained from alloc_mixin_data; cells[i + 1]
\* is the C++ element [i].
null_mixin_data == [sentinel |-> TRUE, cells |-> <<NullCell>>]

alloc_mixin_data(type) ==
    [sentinel |-> FALSE,
     cells |-> [i \in 1..(Cardinality(type) + MIXIN_INDEX_OFFSET) |-> NullCell]]

Cell(data, index) ==
    IF index + 1 \in DOMAIN data.cells THEN data.cells[index + 1] ELSE NullCell

\* ---- history ------------------------------------------------------------
EventKinds == {"alloc", "construct", "copy_construct", "destroy", "dealloc",
               "foreign_dealloc", "copy_assign", "move_construct"}
NoEvents == [x \in Objects |-> [id \in Mixins |-> [k \in EventKinds |-> 0]]]
NoArr == [alloc |-> 0, dealloc |-> 0]

\* The machine state an operation works on: the program's variables plus the
\* events of the running operation and whether its I_DYNAMIX_ASSERTs held.
Machine ==
    [type_info |-> _type_info, mixin_data |-> _mixin_data, allocator |-> _allocator,
     num_objects |-> num_objects, num_mixins |-> num_mixins,
     ev |-> NoEvents, arr |-> NoArr, calls |-> {}, asserts |-> TRUE, trace |-> <<>>,
     ret |-> NullCell]

\* a call of the object_allocator `alloc` (release, on_set_to_object, on_move,
\* on_copy_construct) for the object `obj`
Call(S, alloc, what, obj) == [S EXCEPT !.calls = @ \cup {<<alloc, what, obj>>}]
\* what happened to the mixin `id` of the object `this`
Event(S, this, id, k) ==
    [S EXCEPT !.ev[this][id][k] = @ + 1, !.trace = Append(@, <<k, id>>)]
\* a step of the running operation that is about no mixin: the cell array is
\* allocated or released, a type's counter moves, the object takes its type
NoMixin == -1
Step(S, what) == [S EXCEPT !.trace = Append(@, <<what, NoMixin>>)]
Called(S, what, id) == [S EXCEPT !.trace = Append(@, <<what, id>>)]
Check(S, cond) == [S EXCEPT !.asserts = @ /\ cond]

empty(S, this) == S.type_info[this] = null

SetCell(S, this, index, cell) == [S EXCEPT !.mixin_data[this].cells[index + 1] = cell]

\* ---- mixin_allocator (the default implementation) -----------------------
\* copy_construct_mixin: false when the mixin has no copy constructor
copy_construct_mixin(id) == caps[id].copy_constructor

\* ---- object::make_mixin -------------------------------------------------
\* source: the source object's cell, NullCell for "no source".  The result is
\* the new machine state and the function's return value.
\* lines 224-239: the assertions, alloc_mixin, set_buffer, set_object and
\* ++num_mixins; alloc = _allocator ? _allocator : mixin_info.allocator
alloc_mixin(S, this, id, index, data) ==
    [SetCell(Event(Check(Check(S, has_mixin(S.type_info[this], id)),
                         buffer(data) = null_data),
                   this, id, "alloc"),
             this, index,
             [set_object(set_buffer(data, "heap"), this) EXCEPT !.by = S.allocator[this]])
        EXCEPT !.num_mixins[id] = @ + 1]

\* construct_mixin (k = "construct") or copy_construct_mixin (k =
\* "copy_construct") on the cell's data, which then holds `value`
construct_mixin(S, this, id, index, value, k) ==
    Event([S EXCEPT !.mixin_data[this].cells[index + 1].value = value], this, id, k)

\* lines 241-261
construct_or_copy(S, this, id, index, source) ==
    IF mixin(source) = null_data
      THEN [S |-> construct_mixin(S, this, id, index, DefaultValue, "construct"),
            ret |-> TRUE]
      ELSE IF copy_construct_mixin(id)
             THEN [S |-> construct_mixin(S, this, id, index, source.value, "copy_construct"),
                   ret |-> TRUE]
             ELSE [S |-> construct_mixin(S, this, id, index, DefaultValue, "construct"),
                   ret |-> FALSE]

make_mixin_at(S, this, id, index, source) ==
    construct_or_copy(alloc_mixin(S, this, id, index, Cell(S.mixin_data[this], index)),
                      this, id, index, source)

make_mixin(S, this, id, source) ==
    make_mixin_at(S, this, id, mixin_index(S.type_info[this], id), source)

\* ---- object::delete_mixin -----------------------------------------------
\* line 274: the buffer goes to `alloc`, whichever allocator it came from
dealloc_mixin(S, this, id, data) ==
    IF data.by # S.allocator[this]
      THEN Event(Event(S, this, id, "dealloc"), this, id, "foreign_dealloc")
      ELSE Event(S, this, id, "dealloc")

\* lines 276-277
release_mixin(S, id) == [Check(S, S.num_mixins[id] > 0) EXCEPT !.num_mixins[id] = @ - 1]

delete_mixin_at(S, this, id, index, data) ==
    SetCell(release_mixin(dealloc_mixin(Event(Check(S, has_mixin(S.type_info[this], id)),
                                              this, id, "destroy"),
                                        this, id, data),
                          id),
            this, index, clear_cell(data))

delete_mixin(S, this, id) ==
    delete_mixin_at(S, this, id, mixin_index(S.type_info[this], id),
                    Cell(S.mixin_data[this], mixin_index(S.type_info[this], id)))

\* ---- object::clear ------------------------------------------------------
RECURSIVE clear_loop(_, _, _, _)
clear_loop(S, this, mixins, i) ==
    IF i > Len(mixins) THEN S
    ELSE clear_loop(delete_mixin(S, this, mixins[i]), this, mixins, i + 1)

\* A counter is a size_t: a value n < 0 stands for 2^64 + n, the value the
\* unsigned decrement of 0 wraps to.
\* I_DYNAMIX_ASSERT(type->num_objects > 0); --type->num_objects;
release_type(S, type) ==
    [Step(Check(S, S.num_objects[type] > 0), "release_type")
        EXCEPT !.num_objects[type] = @ - 1]

\* lines 124-131
release_mixin_data(S, this) ==
    IF S.mixin_data[this] # null_mixin_data
      THEN release_type([Step(S, "dealloc_mixin_data")
                             EXCEPT !.arr.dealloc = @ + 1,
                                  !.mixin_data[this] = null_mixin_data],
                        S.type_info[this])
      ELSE S

\* lines 119-131
clear_mixin_data(S, this) ==
    release_mixin_data(clear_loop(S, this, compact_mixins(S.type_info[this]), 1), this)

\* clear without its last line, _type_info = &object_type_info::null()
clear_keeps_type(S, this) == clear_mixin_data(S, this)

clear(S, this) == [clear_mixin_data(S, this) EXCEPT !.type_info[this] = null]

\* ---- object::change_type_from -------------------------------------------
\* source: [present |-> whether a source array was passed, data |-> that array]
NoSource == [present |-> FALSE, data |-> null_mixin_data]
FromSource(data) == [present |-> TRUE, data |-> data]

\* lines 153-178: the loop over the old type's mixins.  L is the loop state:
\* the machine, the array being filled and the result so far.
\* lines 158-172: a mixin both types have
\* lines 162-172: the kept mixin is assigned from the source's
assign_mixin(L, this, source, id, new_index) ==
    IF source.present
      THEN IF ~caps[id].copy_assignment
             THEN [L EXCEPT !.res = "bad_assign"]
             ELSE [L EXCEPT
                     !.new_mixin_data.cells[new_index + 1].value =
                         Cell(source.data, new_index).value,
                     !.S = Event(@, this, id, "copy_assign")]
      ELSE L

\* lines 158-160: the cell moves to its place in the new array
move_mixin_data(L, this, old_type, id, new_index) ==
    [L EXCEPT !.new_mixin_data.cells[new_index + 1] =
                  Cell(L.S.mixin_data[this], mixin_index(old_type, id))]

keep_mixin(L, this, old_type, new_type, source, id) ==
    assign_mixin(move_mixin_data(L, this, old_type, id, mixin_index(new_type, id)),
                 this, source, id, mixin_index(new_type, id))

\* the loop body without the delete_mixin of a mixin the new type lacks
old_mixins_step_leak(L, this, old_type, new_type, source, id) ==
    IF has_mixin(new_type, id)
      THEN keep_mixin(L, this, old_type, new_type, source, id)
      ELSE L

\* the loop body without the move of a kept mixin's cell into the new array
old_mixins_step_no_move(L, this, old_type, new_type, source, id) ==
    IF has_mixin(new_type, id)
      THEN L
      ELSE [L EXCEPT !.S = delete_mixin(@, this, id)]

old_mixins_step(L, this, old_type, new_type, source, id) ==
    IF has_mixin(new_type, id)
      THEN keep_mixin(L, this, old_type, new_type, source, id)
      ELSE [L EXCEPT !.S = delete_mixin(@, this, id)]

\* the loop over old_type->_compact_mixins taken from its last element
RECURSIVE old_mixins_loop_reversed(_, _, _, _, _, _, _)
old_mixins_loop_reversed(L, this, old_type, new_type, source, mixins, i) ==
    IF i > Len(mixins) THEN L
    ELSE old_mixins_loop_reversed(
             old_mixins_step(L, this, old_type, new_type, source,
                             mixins[Len(mixins) + 1 - i]),
             this, old_type, new_type, source, mixins, i + 1)

RECURSIVE old_mixins_loop(_, _, _, _, _, _, _)
old_mixins_loop(L, this, old_type, new_type, source, mixins, i) ==
    IF i > Len(mixins) THEN L
    ELSE old_mixins_loop(old_mixins_step(L, this, old_type, new_type, source, mixins[i]),
                         this, old_type, new_type, source, mixins, i + 1)

\* lines 198-209: construct what the new type has and the object lacks
\* lines 203-207: make the mixin, from the source's cell if there is a source
\* lines 204-207 with a status that, once bad_assign, stays bad_assign
record_made_first_wins(L, made) ==
    [L EXCEPT !.S = made.S,
              !.res = IF made.ret \/ @ = "bad_assign" THEN @ ELSE "bad_copy_construct"]

\* lines 204-207: made is what make_mixin did and returned
record_made(L, made) ==
    [L EXCEPT !.S = made.S,
              !.res = IF made.ret THEN @ ELSE "bad_copy_construct"]

\* line 203
source_mixin_data(source, index) ==
    IF source.present THEN Cell(source.data, index) ELSE NullCell

make_new_mixin(L, this, new_type, source, id) ==
    record_made(L, make_mixin(L.S, this, id,
                              source_mixin_data(source, mixin_index(new_type, id))))

\* the loop body without the test of the cell's buffer
new_mixins_step_always(L, this, new_type, source, id) ==
    make_new_mixin(L, this, new_type, source, id)

\* the loop body with the test of make_mixin's result inverted
new_mixins_step_inverted(L, this, new_type, source, id) ==
    LET index == mixin_index(new_type, id)
    IN  IF buffer(Cell(L.S.mixin_data[this], index)) = null_data
          THEN LET made == make_new_mixin([L EXCEPT !.res = "success"],
                                          this, new_type, source, id)
               IN  [made EXCEPT !.res = IF @ = "success" THEN "bad_copy_construct"
                                                        ELSE L.res]
          ELSE L

new_mixins_step(L, this, new_type, source, id) ==
    LET index == mixin_index(new_type, id)
    IN  IF buffer(Cell(L.S.mixin_data[this], index)) = null_data
          THEN make_new_mixin(L, this, new_type, source, id)
          ELSE L

\* the loop, left at the first mixin that could not be copy-constructed
RECURSIVE new_mixins_loop_stop(_, _, _, _, _, _)
new_mixins_loop_stop(L, this, new_type, source, mixins, i) ==
    IF i > Len(mixins) \/ L.res = "bad_copy_construct" THEN L
    ELSE new_mixins_loop_stop(new_mixins_step(L, this, new_type, source, mixins[i]),
                              this, new_type, source, mixins, i + 1)

RECURSIVE new_mixins_loop(_, _, _, _, _, _)
new_mixins_loop(L, this, new_type, source, mixins, i) ==
    IF i > Len(mixins) THEN L
    ELSE new_mixins_loop(new_mixins_step(L, this, new_type, source, mixins[i]),
                         this, new_type, source, mixins, i + 1)

\* lines 211-217: the default message implementation's virtual mixin
bind_default_impl(S, this) ==
    IF ~empty(S, this)
      THEN SetCell(S, this, DEFAULT_MSG_IMPL_INDEX,
                   set_object(set_buffer(Cell(S.mixin_data[this], DEFAULT_MSG_IMPL_INDEX),
                                         "virt"), this))
      ELSE S

\* The result is [S |-> the new machine state, res |-> the status].
\* lines 148-151
begin_change_type(S, new_type) ==
    [S |-> [Step(S, "alloc_mixin_data") EXCEPT !.arr.alloc = @ + 1],
     new_mixin_data |-> alloc_mixin_data(new_type),
     res |-> "success"]

\* lines 180-183
dealloc_old_mixin_data(S, old_mixin_data) ==
    IF old_mixin_data # null_mixin_data
      THEN [Step(S, "dealloc_mixin_data") EXCEPT !.arr.dealloc = @ + 1]
      ELSE S

\* lines 185-189
release_old_type(S, old_type) ==
    IF old_type # null THEN release_type(S, old_type) ELSE S

\* lines 190-193
acquire_new_type(S, new_type) ==
    IF new_type # null
      THEN [Step(S, "acquire_type") EXCEPT !.num_objects[new_type] = @ + 1]
      ELSE S

\* lines 195-196
set_type(S, this, new_type, new_mixin_data) ==
    [Step(S, "set_type")
        EXCEPT !.type_info[this] = new_type, !.mixin_data[this] = new_mixin_data]

\* lines 180-196
switch_type(L, this, old_type, old_mixin_data, new_type) ==
    [L EXCEPT !.S =
        set_type(acquire_new_type(release_old_type(
                     dealloc_old_mixin_data(@, old_mixin_data), old_type), new_type),
                 this, new_type, L.new_mixin_data)]

\* lines 211-219
end_change_type(L, this) == [S |-> bind_default_impl(L.S, this), res |-> L.res]

\* The result is [S |-> the new machine state, res |-> the status].
change_type_between(S, this, old_type, new_type, source) ==
    end_change_type(
        new_mixins_loop(
            switch_type(
                old_mixins_loop(begin_change_type(S, new_type), this, old_type, new_type,
                                source, compact_mixins(old_type), 1),
                this, old_type, S.mixin_data[this], new_type),
            this, new_type, source, compact_mixins(new_type), 1),
        this)

change_type_from(S, this, new_type, source) ==
    change_type_between(S, this, S.type_info[this], new_type, source)

\* ---- object::has / object::get ------------------------------------------
internal_has_mixin(S, this, id) == has_mixin(S.type_info[this], id)
internal_get_mixin(S, this, id) ==
    mixin(Cell(S.mixin_data[this], mixin_index(S.type_info[this], id)))

has(S, this, id) == IF id >= DYNAMIX_MAX_MIXINS THEN FALSE ELSE internal_has_mixin(S, this, id)
get(S, this, id) == IF id >= DYNAMIX_MAX_MIXINS THEN null_data ELSE internal_get_mixin(S, this, id)

\* ---- object::copyable ---------------------------------------------------
\* the loop without the test of copy_assignment
RECURSIVE copyable_loop_constructor_only(_, _)
copyable_loop_constructor_only(mixins, i) ==
    IF i > Len(mixins) THEN TRUE
    ELSE IF ~caps[mixins[i]].copy_constructor THEN FALSE
    ELSE copyable_loop_constructor_only(mixins, i + 1)

RECURSIVE copyable_loop(_, _)
copyable_loop(mixins, i) ==
    IF i > Len(mixins) THEN TRUE
    ELSE IF ~caps[mixins[i]].copy_constructor THEN FALSE
    ELSE IF ~caps[mixins[i]].copy_assignment THEN FALSE
    ELSE copyable_loop(mixins, i + 1)

copyable(S, this) == copyable_loop(compact_mixins(S.type_info[this]), 1)

\* ---- object::usurp ------------------------------------------------------
\* the loop left out: the cells keep the back-pointers they had
rebind_loop_none(S, this, i, end) == S

RECURSIVE rebind_loop(_, _, _, _)
rebind_loop(S, this, i, end) ==
    IF i >= end THEN S
    ELSE rebind_loop(SetCell(S, this, i, set_object(Cell(S.mixin_data[this], i), this)),
                     this, i + 1, end)

\* moved: what o._allocator->on_move(*this, o) returns
\* lines 325-329
release_allocator(S, this) ==
    IF S.allocator[this] # nullptr
      THEN [Call(S, S.allocator[this], "release", this) EXCEPT !.allocator[this] = nullptr]
      ELSE S

\* _allocator = alloc; if (_allocator) _allocator->on_set_to_object(*this);
set_allocator(S, this, alloc) ==
    IF alloc # nullptr
      THEN Call([S EXCEPT !.allocator[this] = alloc], alloc, "on_set_to_object", this)
      ELSE [S EXCEPT !.allocator[this] = alloc]

\* lines 331-339 without the call of on_move
move_allocator_silent(S, this, o, moved) ==
    IF S.allocator[o] # nullptr
      THEN [set_allocator(S, this, moved) EXCEPT !.allocator[o] = nullptr]
      ELSE S

\* lines 331-339 without the last one, o._allocator = nullptr
move_allocator_keeps_source(S, this, o, moved) ==
    IF S.allocator[o] # nullptr
      THEN set_allocator(Call(S, S.allocator[o], "on_move", this), this, moved)
      ELSE S

\* lines 331-339
move_allocator(S, this, o, moved) ==
    IF S.allocator[o] # nullptr
      THEN [set_allocator(Call(S, S.allocator[o], "on_move", this), this, moved)
               EXCEPT !.allocator[o] = nullptr]
      ELSE S

\* lines 341-342
take_mixin_data(S, this, o) ==
    [S EXCEPT !.type_info[this] = S.type_info[o], !.mixin_data[this] = S.mixin_data[o]]

\* lines 344-348
rebind(S, this) ==
    rebind_loop(S, this, MIXIN_INDEX_OFFSET,
                Len(compact_mixins(S.type_info[this])) + MIXIN_INDEX_OFFSET)

\* lines 358-359
reset_moved_from(S, o) ==
    [S EXCEPT !.type_info[o] = null, !.mixin_data[o] = null_mixin_data]

usurp(S, this, o, moved) ==
    reset_moved_from(
        bind_default_impl(
            rebind(take_mixin_data(move_allocator(release_allocator(S, this),
                                                  this, o, moved),
                                   this, o),
                   this),
            this),
        o)

\* object::operator=(object&&)
move_assign(S, this, o, moved) == usurp(clear(S, this), this, o, moved)

\* ---- DYNAMIX_THROW_UNLESS -----------------------------------------------
\* raised: the exception already in flight ("none" when there is none)
THROW_UNLESS(raised, cond, exception) ==
    IF raised # "none" THEN raised ELSE IF cond THEN "none" ELSE exception

\* ---- object::copy_matching_from -----------------------------------------
\* The result is [S |-> machine, raised |-> the exception thrown or "none"].
RECURSIVE copy_matching_loop(_, _, _, _, _)
copy_matching_loop(R, this, o, mixins, i) ==
    IF i > Len(mixins) \/ R.raised # "none" THEN R
    ELSE LET id == mixins[i]
             type == R.S.type_info[this]
         IN  IF has_mixin(type, id)
               THEN LET thrown == THROW_UNLESS("none", caps[id].copy_assignment,
                                               "bad_copy_assignment")
                        index == mixin_index(type, id)
                        from  == Cell(R.S.mixin_data[o], mixin_index(R.S.type_info[o], id))
                        to    == Cell(R.S.mixin_data[this], index)
                    IN  IF thrown # "none"
                          THEN [R EXCEPT !.raised = thrown]
                          ELSE copy_matching_loop(
                                 [R EXCEPT !.S = Event(SetCell(@, this, index,
                                                    [to EXCEPT !.value = from.value]),
                                                    this, id, "copy_assign")],
                                 this, o, mixins, i + 1)
               ELSE copy_matching_loop(R, this, o, mixins, i + 1)

copy_matching_from(S, this, o) ==
    copy_matching_loop([S |-> S, raised |-> "none"], this, o,
                       compact_mixins(S.type_info[o]), 1)

\* ---- object::copy_from --------------------------------------------------
\* lines 400-404 with the two exceptions exchanged
throw_on_failure_swapped(res) ==
    IF res # "success"
      THEN THROW_UNLESS(THROW_UNLESS("none", res = "bad_assign", "bad_copy_assignment"),
                        res = "bad_copy_construct", "bad_copy_construction")
      ELSE "none"

\* lines 400-404: what copy_from throws for a status of change_type_from
throw_on_failure(res) ==
    IF res # "success"
      THEN THROW_UNLESS(THROW_UNLESS("none", res = "bad_assign", "bad_copy_construction"),
                        res = "bad_copy_construct", "bad_copy_assignment")
      ELSE "none"

\* copied: what o._allocator->on_copy_construct(*this, o) returns.  The result
\* is [S, res |-> the status of change_type_from or "none" when it was not
\* called, raised |-> the exception thrown or "none"].
\* a function that returned nothing, with the machine state S
Returned(S) == [S |-> S, res |-> "none", raised |-> "none"]

\* lines 374-377: the allocator is released, the pointer stays
release_for_copy(S, this) ==
    IF S.allocator[this] # nullptr
      THEN Call(S, S.allocator[this], "release", this)
      ELSE S

\* lines 370-384
copy_allocator(S, this, o, copied) ==
    IF empty(S, this) /\ S.allocator[o] # nullptr
      THEN set_allocator(Call(release_for_copy(S, this), S.allocator[o],
                              "on_copy_construct", this),
                         this, copied)
      ELSE S

\* lines 394-395: M is what copy_matching_from did
matching_copied(M) == [S |-> M.S, res |-> "none", raised |-> M.raised]

\* lines 398-404: C is what change_type_from did and returned
retype_copied(C) == [S |-> C.S, res |-> C.res, raised |-> throw_on_failure(C.res)]

\* lines 386-404
copy_mixins(S, this, o) ==
    IF empty(S, o)
      THEN Returned(clear(S, this))
    ELSE IF S.type_info[o] = S.type_info[this]
      THEN matching_copied(copy_matching_from(S, this, o))
    ELSE retype_copied(change_type_from(S, this, S.type_info[o],
                                        FromSource(S.mixin_data[o])))

copy_from(S, this, o, copied) ==
    IF o = this THEN Returned(S)
    ELSE copy_mixins(copy_allocator(S, this, o, copied), this, o)

\* ---- move_mixin, hard_replace_mixin, reallocate_mixins -------------------
\* a function left by the exception `exception`
Thrown(S, exception) == [S |-> S, res |-> "none", raised |-> exception]

\* the pair (buffer, mixin_offset) a function returns, as the cell that held
\* it; NullCell for (nullptr, 0)
return_pair(S, cell) == [S EXCEPT !.ret = cell]

\* lines 459-466, with a dealloc_mixin of the old buffer that the code lacks
relocate_and_dealloc(S, this, id, index, old_data) ==
    Returned(return_pair(
        dealloc_mixin(
            Event(SetCell(S, this, index, set_object(set_buffer(old_data, "user"), this)),
                  this, id, "move_construct"),
            this, id, old_data),
        old_data))

\* lines 459-466: the cell takes the caller's buffer, the mixin is
\* move-constructed there (it keeps its value) and the old pair is returned
relocate(S, this, id, index, old_data) ==
    Returned(return_pair(
        Event(SetCell(S, this, index, set_object(set_buffer(old_data, "user"), this)),
              this, id, "move_construct"),
        old_data))

\* lines 452-466
move_mixin_at(S, this, id, index, data) ==
    IF mixin(data) = null_data THEN Returned(S)
    ELSE IF ~caps[id].move_constructor THEN Thrown(S, "bad_mixin_move")
    ELSE relocate(S, this, id, index, data)

move_mixin_of(S, this, id) ==
    IF id >= DYNAMIX_MAX_MIXINS THEN Returned(S)
    ELSE move_mixin_at(S, this, id, mixin_index(S.type_info[this], id),
                       Cell(S.mixin_data[this], mixin_index(S.type_info[this], id)))

\* the history keeps the id the call was given
move_mixin(S, this, id) == move_mixin_of(Called(S, "move_mixin", id), this, id)

\* lines 475-481.  content: what the caller's buffer holds, the back-pointer
\* in front of the data and the data; set_buffer writes neither.
swap_buffer(S, this, index, data, content) ==
    return_pair(SetCell(S, this, index,
                        [data EXCEPT !.buffer = "raw", !.value = content.value,
                                     !.object = content.object]),
                data)

hard_replace_mixin_at(S, this, id, index, data, content) ==
    swap_buffer(Check(Check(S, id < DYNAMIX_MAX_MIXINS), mixin(data) # null_data),
                this, index, data, content)

hard_replace_mixin(S, this, id, content) ==
    hard_replace_mixin_at(S, this, id, mixin_index(S.type_info[this], id),
                          Cell(S.mixin_data[this], mixin_index(S.type_info[this], id)),
                          content)

\* lines 491-504 without data.set_object(this)
reallocate_mixin_unbound(S, this, id, index, old_data) ==
    dealloc_mixin(
        Event(SetCell(Event(Check(S, buffer(old_data) # null_data), this, id, "alloc"),
                      this, index,
                      [set_buffer(old_data, "heap") EXCEPT !.by = S.allocator[this]]),
              this, id, "move_construct"),
        this, id, old_data)

\* lines 491-504: a new buffer from alloc = _allocator ? _allocator :
\* mixin_info->allocator, the mixin move-constructed there, the old buffer
\* given to alloc
reallocate_mixin(S, this, id, index, old_data) ==
    dealloc_mixin(
        Event(SetCell(Event(Check(S, buffer(old_data) # null_data), this, id, "alloc"),
                      this, index,
                      [set_object(set_buffer(old_data, "heap"), this)
                          EXCEPT !.by = S.allocator[this]]),
              this, id, "move_construct"),
        this, id, old_data)

\* lines 488-504
reallocate_step(R, this, id) ==
    IF ~caps[id].move_constructor
      THEN [R EXCEPT !.raised = "bad_mixin_move"]
      ELSE [R EXCEPT !.S =
              reallocate_mixin(@, this, id, mixin_index(R.S.type_info[this], id),
                               Cell(R.S.mixin_data[this],
                                    mixin_index(R.S.type_info[this], id)))]

RECURSIVE reallocate_loop(_, _, _, _)
reallocate_loop(R, this, mixins, i) ==
    IF i > Len(mixins) \/ R.raised # "none" THEN R
    ELSE reallocate_loop(reallocate_step(R, this, mixins[i]), this, mixins, i + 1)

reallocate_mixins(S, this) ==
    reallocate_loop(Returned(S), this, compact_mixins(S.type_info[this]), 1)

\* ---- the mixin_type_infos of the domain ---------------------------------
\* Which of copy_constructor, copy_assignment and move_constructor a
\* mixin_type_info has.
CapKinds ==
    <<[copy_constructor |-> TRUE,  copy_assignment |-> TRUE,  move_constructor |-> TRUE],
      [copy_constructor |-> FALSE, copy_assignment |-> TRUE,  move_constructor |-> TRUE],
      [copy_constructor |-> TRUE,  copy_assignment |-> FALSE, move_constructor |-> FALSE],
      [copy_constructor |-> FALSE, copy_assignment |-> FALSE, move_constructor |-> TRUE]>>

\* The registries explored: every mixin fully copyable, and one mixin of each kind
AllCopyable == [id \in Mixins |-> CapKinds[1]]
Mixed == [id \in Mixins |-> CapKinds[(id % Len(CapKinds)) + 1]]
CapProfiles == {AllCopyable, Mixed}

\* ---- the state machine --------------------------------------------------
\* The program's variables, as an operation finds them
Snapshot ==
    [type_info |-> _type_info, mixin_data |-> _mixin_data, allocator |-> _allocator,
     num_objects |-> num_objects, num_mixins |-> num_mixins]

NoOp == [kind |-> "idle", this |-> nullptr, o |-> nullptr, new_type |-> null,
         res |-> "none", raised |-> "none", asserts |-> TRUE,
         ev |-> NoEvents, arr |-> NoArr, calls |-> {}, trace |-> <<>>,
         ret |-> NullCell,
         pre |-> <<>>, via |-> null]

\* object::object() for every object
Init ==
    /\ _type_info = [x \in Objects |-> null]
    /\ _mixin_data = [x \in Objects |-> null_mixin_data]
    /\ _allocator = [x \in Objects |-> nullptr]
    /\ num_objects = [t \in Types |-> 0]
    /\ num_mixins = [id \in Mixins |-> 0]
    /\ caps \in CapProfiles
    /\ lastOp = NoOp

\* No operation is running; a failed I_DYNAMIX_ASSERT aborts the program.
Idle == lastOp.kind = "idle"

\* The operation ends: R is [S |-> the machine state it leaves, res |-> the
\* status of change_type_from, raised |-> the exception thrown], "none" for
\* what did not happen.
CommitAs(R0, kind, this, o, new_type, pre, via) == \E R \in {R0} :
    /\ _type_info' = R.S.type_info
    /\ _mixin_data' = R.S.mixin_data
    /\ _allocator' = R.S.allocator
    /\ num_objects' = R.S.num_objects
    /\ num_mixins' = R.S.num_mixins
    /\ UNCHANGED caps
    /\ lastOp' = [kind |-> kind, this |-> this, o |-> o, new_type |-> new_type,
                  res |-> R.res, raised |-> R.raised, asserts |-> R.S.asserts,
                  ev |-> R.S.ev, arr |-> R.S.arr, calls |-> R.S.calls,
                  trace |-> R.S.trace, ret |-> R.S.ret,
                  pre |-> pre, via |-> via]

Commit(R, kind, this, o, new_type) ==
    CommitAs(R, kind, this, o, new_type, Snapshot, null)

\* change_type discards the status of change_type_from and throws nothing
status_dropped(C) == [S |-> C.S, res |-> C.res, raised |-> "none"]

change_type(S, this, new_type) ==
    status_dropped(change_type_from(S, this, new_type, NoSource))

\* object::change_type
ChangeType(this, new_type) ==
    /\ Idle
    /\ Commit(change_type(Machine, this, new_type), "change_type", this, nullptr,
              new_type)

\* object::change_type called again right after a change_type of the same
\* object, back to the type the object had: the record keeps the state from
\* before the first call and the type the object went through.
ChangeTypeBack(this) ==
    /\ lastOp.kind = "change_type"
    /\ lastOp.asserts
    /\ lastOp.this = this
    /\ CommitAs(change_type(Machine, this, lastOp.pre.type_info[this]),
                "change_type_back", this, nullptr, lastOp.pre.type_info[this],
                lastOp.pre, _type_info[this])

Clear(this) ==
    /\ Idle
    /\ Commit(Returned(clear(Machine, this)), "clear", this, nullptr, null)

MoveAssign(this, o, moved) ==
    /\ Idle
    /\ Commit(Returned(move_assign(Machine, this, o, moved)), "move_assign", this, o,
              _type_info[o])

\* object::operator=(const object&), and object::copy into a fresh object
CopyFrom(this, o, copied) ==
    /\ Idle
    /\ Commit(copy_from(Machine, this, o, copied), "copy_from", this, o, _type_info[o])

\* user code storing a value through the pointer get(id) returns
Write(this, id, v) ==
    /\ Idle
    /\ get(Machine, this, id) # null_data
    /\ LET index == mixin_index(_type_info[this], id)
           cell == Cell(_mixin_data[this], index)
       IN  /\ cell.value # v
           /\ Commit(Returned(SetCell(Machine, this, index, [cell EXCEPT !.value = v])),
                     "write", this, nullptr, _type_info[this])

\* The operation returns to its caller, unless an I_DYNAMIX_ASSERT aborted it.
Return ==
    /\ ~Idle
    /\ lastOp.asserts
    /\ lastOp' = NoOp
    /\ UNCHANGED <<_type_info, _mixin_data, _allocator, num_objects, num_mixins, caps>>

\* what on_move and on_copy_construct may return, when they are called
Moved(o) == IF _allocator[o] # nullptr THEN AllocOrNull ELSE {nullptr}
Copied(this, o) ==
    IF o # this /\ _type_info[this] = null /\ _allocator[o] # nullptr
      THEN AllocOrNull ELSE {nullptr}

Next ==
    \/ \E this \in Objects, new_type \in Types : ChangeType(this, new_type)
    \/ \E this \in Objects : Clear(this)
    \/ \E this \in Objects, o \in Objects : \E moved \in Moved(o) : MoveAssign(this, o, moved)
    \/ \E this \in Objects, o \in Objects : \E copied \in Copied(this, o) :
          CopyFrom(this, o, copied)
    \/ \E this \in Objects, id \in QueryIds, v \in Values : Write(this, id, v)
    \/ Return

Spec == Init /\ [][Next]_vars

\* ---- the round trip -----------------------------------------------------
\* An object that was given a type and values (change_type from the empty
\* object, then writes through get), retyped and retyped back at once.
WithValues(S, this, vals) ==
    [S EXCEPT !.mixin_data[this].cells =
        [i \in DOMAIN @ |->
            IF i > MIXIN_INDEX_OFFSET
              THEN [@[i] EXCEPT !.value =
                       vals[compact_mixins(S.type_info[this])[i - MIXIN_INDEX_OFFSET]]]
              ELSE @[i]]]

\* the machine state object::object() leaves, for every object
Constructed ==
    [type_info |-> [x \in Objects |-> null],
     mixin_data |-> [x \in Objects |-> null_mixin_data],
     allocator |-> [x \in Objects |-> nullptr],
     num_objects |-> [t \in Types |-> 0],
     num_mixins |-> [id \in Mixins |-> 0],
     ev |-> NoEvents, arr |-> NoArr, calls |-> {}, asserts |-> TRUE, trace |-> <<>>,
     ret |-> NullCell]

InitRoundTrip ==
    /\ caps \in CapProfiles
    /\ lastOp = NoOp
    /\ \E this \in Objects, type \in Types, vals \in [Mixins -> Values] :
          \E S \in {WithValues(change_type(Constructed, this, type).S, this, vals)} :
              /\ _type_info = S.type_info
              /\ _mixin_data = S.mixin_data
              /\ _allocator = S.allocator
              /\ num_objects = S.num_objects
              /\ num_mixins = S.num_mixins

NextRoundTrip ==
    \/ \E this \in Objects, new_type \in Types : ChangeType(this, new_type)
    \/ \E this \in Objects : ChangeTypeBack(this)

SpecRoundTrip == InitRoundTrip /\ [][NextRoundTrip]_vars

\* ---- objects with object_allocators -------------------------------------
\* object::object(object_allocator*) for every object, with or without one
InitAlloc ==
    /\ _type_info = [x \in Objects |-> null]
    /\ _mixin_data = [x \in Objects |-> null_mixin_data]
    /\ _allocator \in [Objects -> AllocOrNull]
    /\ num_objects = [t \in Types |-> 0]
    /\ num_mixins = [id \in Mixins |-> 0]
    /\ caps = AllCopyable
    /\ lastOp = NoOp

\* object::~object(): clear(); if (_allocator) _allocator->release(*this);
destroy(S, this) == release_for_copy(clear(S, this), this)

\* object::object(object_allocator*) in the place of the destroyed object
construct(S, this, allocator) ==
    set_allocator([S EXCEPT !.type_info[this] = null,
                            !.mixin_data[this] = null_mixin_data],
                  this, allocator)

\* The object is destroyed and another one is constructed in its place.
Destroy(this, allocator) ==
    /\ Idle
    /\ Commit(Returned(construct(destroy(Machine, this), this, allocator)),
              "destroy", this, nullptr, null)

NextAlloc ==
    \/ \E this \in Objects, new_type \in Types : ChangeType(this, new_type)
    \/ \E this \in Objects : Clear(this)
    \/ \E this \in Objects, o \in Objects : \E moved \in Moved(o) : MoveAssign(this, o, moved)
    \/ \E this \in Objects, o \in Objects : \E copied \in Copied(this, o) :
          CopyFrom(this, o, copied)
    \/ \E this \in Objects, allocator \in AllocOrNull : Destroy(this, allocator)
    \/ Return

SpecAlloc == InitAlloc /\ [][NextAlloc]_vars

\* ---- objects whose mixins are moved to other buffers ---------------------
\* the buffers the callers of move_mixin and hard_replace_mixin own
MaxUserBuffers == 1

UserBuffers ==
    {c \in Objects \X (1..(NumMixins + MIXIN_INDEX_OFFSET)) :
        Cell(_mixin_data[c[1]], c[2] - 1).buffer \in {"user", "raw"}}

MoveMixin(this, id) ==
    /\ Idle
    /\ Cardinality(UserBuffers) < MaxUserBuffers
    /\ Commit(move_mixin(Machine, this, id), "move_mixin", this, nullptr,
              _type_info[this])

\* what a caller's buffer may hold: the back-pointer of any object, any data
Contents == [object : Objects, value : Values]

HardReplaceMixin(this, id, content) ==
    /\ Idle
    /\ Cardinality(UserBuffers) < MaxUserBuffers
    /\ Commit(Returned(hard_replace_mixin(Machine, this, id, content)),
              "hard_replace_mixin", this, nullptr, _type_info[this])

ReallocateMixins(this) ==
    /\ Idle
    /\ Commit(reallocate_mixins(Machine, this), "reallocate_mixins", this, nullptr,
              _type_info[this])

NextReplace ==
    \/ \E this \in Objects, new_type \in Types : ChangeType(this, new_type)
    \/ \E this \in Objects, o \in Objects : \E moved \in Moved(o) : MoveAssign(this, o, moved)
    \/ \E this \in Objects, o \in Objects : \E copied \in Copied(this, o) :
          CopyFrom(this, o, copied)
    \/ \E this \in Objects, id \in QueryIds : MoveMixin(this, id)
    \/ \E this \in Objects, id \in Mixins, content \in Contents :
          HardReplaceMixin(this, id, content)
    \/ \E this \in Objects : ReallocateMixins(this)
    \/ Return

InitReplace ==
    /\ Init
    /\ caps = Mixed

SpecReplace == InitReplace /\ [][NextReplace]_vars

\* ---- properties ---------------------------------------------------------
\* The cell of the mixin `id` of the object x, now and before the operation
Now(x, id) == Cell(_mixin_data[x], mixin_index(_type_info[x], id))
Before(x, id) == Cell(lastOp.pre.mixin_data[x], mixin_index(lastOp.pre.type_info[x], id))
\* the events of the last operation on the mixin `id` of the object x
Ev(x, id) == lastOp.ev[x][id]
Untouched(x, id) == Ev(x, id) = [k \in EventKinds |-> 0]
Built(x, id) ==
    Ev(x, id).alloc + Ev(x, id).construct + Ev(x, id).copy_construct > 0
Torn(x, id) == Ev(x, id).destroy + Ev(x, id).dealloc > 0

\* C1: change_type from A to B with no source keeps the value of every mixin
\* in both A and B without constructing or destroying it, destroys and
\* deallocates every mixin in A but not B exactly once, and allocates and
\* default-constructs every mixin in B but not A exactly once.
C1_RetypeKeepsDestroysConstructs ==
    lastOp.kind = "change_type" =>
        LET this == lastOp.this
            A == lastOp.pre.type_info[this]
            B == lastOp.new_type
        IN  /\ _type_info[this] = B
            /\ \A id \in A \cap B :
                  /\ Now(this, id).value = Before(this, id).value
                  /\ Now(this, id).buffer = Before(this, id).buffer
                  /\ Untouched(this, id)
            /\ \A id \in A \ B :
                  /\ Ev(this, id).destroy = 1 /\ Ev(this, id).dealloc = 1
                  /\ ~Built(this, id)
            /\ \A id \in B \ A :
                  /\ Ev(this, id).alloc = 1 /\ Ev(this, id).construct = 1
                  /\ Ev(this, id).copy_construct = 0 /\ ~Torn(this, id)
                  /\ Now(this, id).buffer = "heap"
                  /\ Now(this, id).value = DefaultValue

\* a retype with a kept mixin holding a written value, a removed and an added one
C1_Witness ==
    /\ lastOp.kind = "change_type"
    /\ LET this == lastOp.this
           A == lastOp.pre.type_info[this]
           B == lastOp.new_type
       IN  /\ A \ B # {} /\ B \ A # {}
           /\ \E id \in A \cap B : Before(this, id).value # DefaultValue

\* C2: from every reachable state clear() ends without a failed assertion,
\* has(id) is then false for every id, the object has the null type and the
\* shared null cell array, every mixin it held was destroyed and deallocated
\* exactly once, the counter of a former non-null type went down by one and
\* the counter of the null type is untouched.
C2_ClearNeverFails ==
    lastOp.kind = "clear" =>
        LET this == lastOp.this
            A == lastOp.pre.type_info[this]
        IN  /\ lastOp.asserts
            /\ \A id \in QueryIds : ~has(Machine, this, id)
            /\ _type_info[this] = null
            /\ \A id \in A : Ev(this, id).destroy = 1 /\ Ev(this, id).dealloc = 1
            /\ A # null => num_objects[A] = lastOp.pre.num_objects[A] - 1
            /\ num_objects[null] = lastOp.pre.num_objects[null]

\* C3: move-assigning O2 = move(O1), O1 and O2 distinct, leaves O1 empty and O2
\* with the type and the cells O1 had; the mixins O2 had are destroyed exactly
\* once, no mixin of O1 is constructed or destroyed, and every back-pointer of
\* O2's cells designates O2.
C3_MoveAssignTransfers ==
    (lastOp.kind = "move_assign" /\ lastOp.this # lastOp.o) =>
        LET O2 == lastOp.this
            O1 == lastOp.o
            T == lastOp.pre.type_info[O1]
        IN  /\ _type_info[O1] = null /\ _mixin_data[O1] = null_mixin_data
            /\ _type_info[O2] = T
            /\ _mixin_data[O2].sentinel = lastOp.pre.mixin_data[O1].sentinel
            /\ Len(_mixin_data[O2].cells) = Len(lastOp.pre.mixin_data[O1].cells)
            /\ \A id \in T :
                  /\ Now(O2, id).buffer = Before(O1, id).buffer
                  /\ Now(O2, id).buffer # null_data
                  /\ Now(O2, id).value = Before(O1, id).value
                  /\ Now(O2, id).object = O2
            /\ \A id \in Mixins :
                  /\ Untouched(O1, id)
                  /\ ~Built(O2, id)
                  /\ Ev(O2, id).destroy =
                        (IF id \in lastOp.pre.type_info[O2] THEN 1 ELSE 0)

\* both objects held mixins, and the moved ones pointed back to O1
C3_Witness ==
    /\ lastOp.kind = "move_assign" /\ lastOp.this # lastOp.o
    /\ lastOp.pre.type_info[lastOp.this] # null
    /\ \E id \in lastOp.pre.type_info[lastOp.o] :
          /\ Before(lastOp.o, id).object = lastOp.o
          /\ Before(lastOp.o, id).value # DefaultValue

\* C4: copy-assigning from a non-empty source of another type leaves the
\* destination with the source's type; every mixin of the destination the
\* source lacks is destroyed and deallocated exactly once; the source object
\* is unchanged.
C4_CopyAssignTakesSourceType ==
    (/\ lastOp.kind = "copy_from" /\ lastOp.this # lastOp.o
     /\ lastOp.pre.type_info[lastOp.o] # null
     /\ lastOp.pre.type_info[lastOp.o] # lastOp.pre.type_info[lastOp.this]) =>
        LET this == lastOp.this
            o == lastOp.o
        IN  /\ _type_info[this] = lastOp.pre.type_info[o]
            /\ \A id \in lastOp.pre.type_info[this] \ lastOp.pre.type_info[o] :
                  /\ Ev(this, id).destroy = 1 /\ Ev(this, id).dealloc = 1
                  /\ get(Machine, this, id) = null_data
            /\ _type_info[o] = lastOp.pre.type_info[o]
            /\ _mixin_data[o] = lastOp.pre.mixin_data[o]
            /\ _allocator[o] = lastOp.pre.allocator[o]
            /\ \A id \in Mixins : Untouched(o, id)

\* the destination held a mixin the source lacks and one they share
C4_Witness ==
    /\ lastOp.kind = "copy_from" /\ lastOp.this # lastOp.o
    /\ lastOp.pre.type_info[lastOp.o] # null
    /\ lastOp.pre.type_info[lastOp.this] \ lastOp.pre.type_info[lastOp.o] # {}
    /\ lastOp.pre.type_info[lastOp.this] \cap lastOp.pre.type_info[lastOp.o] # {}

\* C5: change_type_from with a source returns a status and leaves every mixin
\* of the new type with a buffer and constructed: a mixin it adds is
\* copy-constructed from the source, or default-constructed when it has no
\* copy constructor, whatever happened to the mixins before it.
C5_RetypeWithSourceCompletes ==
    (lastOp.kind = "copy_from" /\ lastOp.res # "none") =>
        LET this == lastOp.this
            o == lastOp.o
        IN  /\ lastOp.res \in {"success", "bad_assign", "bad_copy_construct"}
            /\ \A id \in _type_info[this] : Now(this, id).buffer # null_data
            /\ \A id \in _type_info[this] \ lastOp.pre.type_info[this] :
                  /\ Ev(this, id).alloc = 1
                  /\ IF caps[id].copy_constructor
                       THEN /\ Ev(this, id).copy_construct = 1
                            /\ Ev(this, id).construct = 0
                            /\ Now(this, id).value = Before(o, id).value
                       ELSE /\ Ev(this, id).construct = 1
                            /\ Ev(this, id).copy_construct = 0
                            /\ Now(this, id).value = DefaultValue

\* a copy construction failed and a later mixin was still copy-constructed
C5_Witness ==
    /\ lastOp.kind = "copy_from" /\ lastOp.res = "bad_copy_construct"
    /\ \E id1, id2 \in _type_info[lastOp.this] \ lastOp.pre.type_info[lastOp.this] :
          /\ id1 < id2
          /\ ~caps[id1].copy_constructor
          /\ Ev(lastOp.this, id2).copy_construct = 1
          /\ Before(lastOp.o, id1).value # DefaultValue

\* copy_from into an object as object() leaves it: the copy constructor, copy()
FreshCopy ==
    /\ lastOp.kind = "copy_from" /\ lastOp.this # lastOp.o
    /\ lastOp.pre.type_info[lastOp.this] = null
    /\ lastOp.pre.mixin_data[lastOp.this] = null_mixin_data
    /\ lastOp.pre.allocator[lastOp.this] = nullptr

CopyableIffAllCapable ==
    \A x \in Objects :
        copyable(Machine, x) <=>
            ~(\E id \in _type_info[x] :
                ~caps[id].copy_constructor \/ ~caps[id].copy_assignment)

\* C6 as stated: copyable() is false iff some mixin of the object lacks its
\* copy constructor or its copy assignment, and copying an object that is not
\* copyable into a fresh object gives the status bad_copy_construct.
C6_NotCopyableGivesBadCopyConstruct ==
    /\ CopyableIffAllCapable
    /\ (FreshCopy /\ ~copyable(lastOp.pre, lastOp.o)) =>
          lastOp.res = "bad_copy_construct"

\* C6 amended: copyable() is false iff some mixin of the object lacks its copy
\* constructor or its copy assignment; copying into a fresh object gives
\* bad_copy_construct (thrown as bad_copy_construction) iff some mixin of the
\* source lacks its copy constructor, and succeeds otherwise, also when a mixin
\* lacks its copy assignment alone; no assertion fails.
C6_CopyableAndFreshCopy ==
    /\ CopyableIffAllCapable
    /\ (FreshCopy /\ lastOp.pre.type_info[lastOp.o] # null) =>
          /\ lastOp.asserts
          /\ IF \E id \in lastOp.pre.type_info[lastOp.o] : ~caps[id].copy_constructor
               THEN /\ lastOp.res = "bad_copy_construct"
                    /\ lastOp.raised = "bad_copy_construction"
               ELSE /\ lastOp.res = "success"
                    /\ lastOp.raised = "none"

\* a source that is not copyable was copied into a fresh object, and failed
C6_Witness ==
    /\ FreshCopy
    /\ ~copyable(lastOp.pre, lastOp.o)
    /\ lastOp.res = "bad_copy_construct"

C8_StatusBecomesException ==
    (lastOp.kind = "copy_from" /\ lastOp.res # "none") =>
        /\ (lastOp.raised # "none") <=> (lastOp.res # "success")
        /\ lastOp.res = "bad_copy_construct" => lastOp.raised = "bad_copy_construction"
        /\ lastOp.res = "bad_assign" => lastOp.raised = "bad_copy_assignment"

\* a copy that ended with bad_assign
C8_Witness ==
    /\ lastOp.kind = "copy_from"
    /\ lastOp.res = "bad_assign"
    /\ lastOp.raised = "bad_copy_assignment"

\* C9: in every state, for every object and id in range, has(id) holds iff the
\* id is in the object's type iff get(id) is not null, and a cell's buffer is
\* set iff it is the cell of a mixin of the type; for an id out of range, and on
\* an empty object, has is false and get is null.
C9_HasIffGet ==
    \A x \in Objects :
        /\ \E S \in {Machine} : \A id \in QueryIds :
              IF id < DYNAMIX_MAX_MIXINS
                THEN /\ has(S, x, id) <=> id \in _type_info[x]
                     /\ has(S, x, id) <=> get(S, x, id) # null_data
                ELSE ~has(S, x, id) /\ get(S, x, id) = null_data
        /\ \A i \in MIXIN_INDEX_OFFSET..(Len(_mixin_data[x].cells) - 1) :
              buffer(Cell(_mixin_data[x], i)) # null_data <=>
                  \E id \in _type_info[x] : mixin_index(_type_info[x], id) = i
        /\ buffer(Cell(_mixin_data[x], NULL_MIXIN_DATA_INDEX)) = null_data

\* after a copy that threw, the destination has a mixin and lacks another
C9_Witness ==
    /\ lastOp.kind = "copy_from" /\ lastOp.raised # "none"
    /\ \E id1, id2 \in Mixins :
          /\ has(Machine, lastOp.this, id1) /\ get(Machine, lastOp.this, id1) # null_data
          /\ ~has(Machine, lastOp.this, id2) /\ get(Machine, lastOp.this, id2) = null_data

\* C10: retyping an object from A to B and back to A, with no source, leaves
\* every mixin in A but not B default-constructed anew, whatever value it had,
\* and every mixin in both A and B with the value it had.
C10_RoundTrip ==
    lastOp.kind = "change_type_back" =>
        LET this == lastOp.this
            A == lastOp.pre.type_info[this]
            B == lastOp.via
        IN  /\ _type_info[this] = A
            /\ \A id \in A \ B :
                  /\ Now(this, id).value = DefaultValue
                  /\ Ev(this, id).construct = 1
            /\ \A id \in A \cap B :
                  /\ Now(this, id).value = Before(this, id).value
                  /\ Untouched(this, id)

\* a round trip that dropped a written value and kept another
C10_Witness ==
    /\ lastOp.kind = "change_type_back"
    /\ LET this == lastOp.this
           A == lastOp.pre.type_info[this]
           B == lastOp.via
       IN  /\ \E id \in A \ B : Before(this, id).value # DefaultValue
           /\ \E id \in A \cap B : Before(this, id).value # DefaultValue

\* C11: change_type to the null type leaves the object as clear() would, with
\* the null type and the shared null_mixin_data, so that in every state an
\* object has the null type iff its array is the shared null_mixin_data.
C11_RetypeToNullIsClear ==
    /\ (lastOp.kind = "change_type" /\ lastOp.new_type = null) =>
          /\ _type_info[lastOp.this] = null
          /\ _mixin_data[lastOp.this] = null_mixin_data
    /\ \A x \in Objects : _type_info[x] = null <=> _mixin_data[x] = null_mixin_data

\* the allocators of all objects are those they had before the operation
AllocatorsKept == \A x \in Objects : _allocator[x] = lastOp.pre.allocator[x]
\* the object x has no allocator, or one that was told on_set_to_object(x)
AllocatorSet(x) ==
    _allocator[x] # nullptr => <<_allocator[x], "on_set_to_object", x>> \in lastOp.calls

\* C12 as stated: no change_type, clear, copy_from or move-assignment changes
\* the allocator of an object.
C12_AllocatorFixed ==
    lastOp.kind \in {"change_type", "clear", "copy_from", "move_assign"} => AllocatorsKept

\* C12 amended: change_type and clear keep every object's allocator.  copy_from
\* keeps the source's, and replaces the destination's by what the source's
\* on_copy_construct returns exactly when the destination is empty and the
\* source has an allocator.  Move-assignment leaves the source without
\* allocator and the destination with what the source's on_move returns, or
\* with none when the source had none.
C12_AllocatorReplacedByCopyAndMove ==
    /\ lastOp.kind \in {"change_type", "clear"} => AllocatorsKept
    /\ lastOp.kind = "copy_from" =>
          IF /\ lastOp.this # lastOp.o
             /\ lastOp.pre.type_info[lastOp.this] = null
             /\ lastOp.pre.allocator[lastOp.o] # nullptr
            THEN /\ _allocator[lastOp.o] = lastOp.pre.allocator[lastOp.o]
                 /\ <<lastOp.pre.allocator[lastOp.o], "on_copy_construct", lastOp.this>>
                        \in lastOp.calls
                 /\ AllocatorSet(lastOp.this)
            ELSE AllocatorsKept
    /\ lastOp.kind = "move_assign" =>
          /\ _allocator[lastOp.o] = nullptr
          /\ \A x \in Objects \ {lastOp.this, lastOp.o} :
                _allocator[x] = lastOp.pre.allocator[x]
          /\ IF lastOp.this # lastOp.o /\ lastOp.pre.allocator[lastOp.o] # nullptr
               THEN /\ <<lastOp.pre.allocator[lastOp.o], "on_move", lastOp.this>>
                          \in lastOp.calls
                    /\ AllocatorSet(lastOp.this)
               ELSE _allocator[lastOp.this] = nullptr

\* a move-assignment from an object with an allocator to one with an allocator
\* left the destination without one
C12_Witness ==
    /\ lastOp.kind = "move_assign" /\ lastOp.this # lastOp.o
    /\ lastOp.pre.allocator[lastOp.o] # nullptr
    /\ lastOp.pre.allocator[lastOp.this] # nullptr
    /\ _allocator[lastOp.this] = nullptr
    /\ lastOp.pre.type_info[lastOp.o] # null

\* the object_allocator a was told on_move(x, ...)
OnMove(a, x) == <<a, "on_move", x>> \in lastOp.calls

\* C14 as stated: on a move-assignment, an allocator that the destination or
\* the source holds is notified through on_move.
C14_OnMoveIfEither ==
    lastOp.kind = "move_assign" =>
        \A x \in {lastOp.this, lastOp.o} :
            lastOp.pre.allocator[x] # nullptr =>
                OnMove(lastOp.pre.allocator[x], lastOp.this)

\* C14 amended: on a move-assignment on_move is called exactly when the source
\* is another object and holds an allocator, and on that allocator; an
\* allocator the destination holds is told release, not on_move.
C14_OnMoveBySourceOnly ==
    lastOp.kind = "move_assign" =>
        /\ (\E a \in Allocators : OnMove(a, lastOp.this)) <=>
              (lastOp.this # lastOp.o /\ lastOp.pre.allocator[lastOp.o] # nullptr)
        /\ \A a \in Allocators :
              OnMove(a, lastOp.this) => a = lastOp.pre.allocator[lastOp.o]
        /\ lastOp.pre.allocator[lastOp.this] # nullptr =>
              <<lastOp.pre.allocator[lastOp.this], "release", lastOp.this>>
                  \in lastOp.calls

\* the destination alone held an allocator, and no on_move was called
C14_Witness ==
    /\ lastOp.kind = "move_assign" /\ lastOp.this # lastOp.o
    /\ lastOp.pre.allocator[lastOp.this] # nullptr
    /\ lastOp.pre.allocator[lastOp.o] = nullptr
    /\ lastOp.pre.type_info[lastOp.o] # null
    /\ \A a \in Allocators : ~OnMove(a, lastOp.this)

\* C13: in every state the counter of every non-null type is the number of
\* objects of that type, no I_DYNAMIX_ASSERT(num_objects > 0) has failed and
\* the counter of the null type has never moved.
C13_CountersCountObjects ==
    /\ \A t \in Types \ {null} :
          num_objects[t] = Cardinality({x \in Objects : _type_info[x] = t})
    /\ lastOp.asserts
    /\ num_objects[null] = 0

\* the back-pointer of the cell of mixin id of object x designates x
BoundTo(x, id) == Now(x, id).object = x

\* the cell of _default_impl_virtual_mixin_data of a non-empty object x
\* designates x
DefaultImplBound(x) ==
    _type_info[x] # null =>
        Cell(_mixin_data[x], DEFAULT_MSG_IMPL_INDEX).object = x

\* C15 as stated: in every state the back-pointer of every mixin an object
\* holds, and of the default-implementation cell of a non-empty object,
\* designates that object, whatever change_type, copy_from, move assignment,
\* move_mixin, hard_replace_mixin and reallocate_mixins calls came before.
C15_BackPointersDesignateHolder ==
    \A x \in Objects :
        /\ \A id \in _type_info[x] : BoundTo(x, id)
        /\ DefaultImplBound(x)

\* C15 amended: the same, except for a mixin whose buffer hard_replace_mixin
\* installed and no later call rebound: its back-pointer is whatever the
\* caller's buffer holds.
C15_BackPointersExceptHardReplaced ==
    \A x \in Objects :
        /\ \A id \in _type_info[x] :
              \/ BoundTo(x, id)
              \/ Now(x, id).buffer = "raw"
        /\ DefaultImplBound(x)

\* reallocate_mixins has bound again a mixin that hard_replace_mixin had left
\* designating another object
C15_Witness ==
    /\ lastOp.kind = "reallocate_mixins" /\ lastOp.raised = "none"
    /\ \E id \in _type_info[lastOp.this] :
          /\ Before(lastOp.this, id).buffer = "raw"
          /\ Before(lastOp.this, id).object # lastOp.this
          /\ Now(lastOp.this, id).buffer = "heap"
          /\ BoundTo(lastOp.this, id)

\* the id the last call was given
Arg == lastOp.trace[1][2]

\* the last call left the types, the counters and the allocators as they were
DescriptorAndCountersKept ==
    /\ _type_info = lastOp.pre.type_info
    /\ num_objects = lastOp.pre.num_objects
    /\ num_mixins = lastOp.pre.num_mixins
    /\ _allocator = lastOp.pre.allocator

\* move_mixin was called for a mixin the object holds and that has a
\* move_constructor
MovedHeldMixin ==
    /\ lastOp.kind = "move_mixin"
    /\ Arg \in lastOp.pre.type_info[lastOp.this]
    /\ caps[Arg].move_constructor

\* the mixin is in the caller's buffer with the value it had, bound to the
\* object, and the call returned the pair of the old buffer
MoveConstructedInto ==
    /\ lastOp.raised = "none"
    /\ Now(lastOp.this, Arg).buffer = "user"
    /\ Now(lastOp.this, Arg).value = Before(lastOp.this, Arg).value
    /\ BoundTo(lastOp.this, Arg)
    /\ Ev(lastOp.this, Arg).move_construct = 1
    /\ lastOp.ret = Before(lastOp.this, Arg)

\* C17 as stated: move_mixin of a mixin the object holds move-constructs it in
\* the given buffer, deallocates the old buffer and returns the old
\* (buffer, offset) pair; the type and the counters are unchanged.
C17_MoveMixinDeallocatesOld ==
    MovedHeldMixin =>
        /\ MoveConstructedInto
        /\ Ev(lastOp.this, Arg).dealloc = 1
        /\ DescriptorAndCountersKept

\* C17 amended: move_mixin of a mixin the object holds move-constructs it in
\* the given buffer and returns the old (buffer, offset) pair, which it
\* neither deallocates nor destroys; without a move_constructor it throws
\* bad_mixin_move, and for an id out of range or a mixin the object does not
\* hold it returns (nullptr, 0), both leaving the object as it was; the type
\* and the counters are unchanged in every case.
C17_MoveMixinReturnsOld ==
    lastOp.kind = "move_mixin" =>
        /\ DescriptorAndCountersKept
        /\ MovedHeldMixin =>
              /\ MoveConstructedInto
              /\ Ev(lastOp.this, Arg) =
                    [k \in EventKinds |-> IF k = "move_construct" THEN 1 ELSE 0]
              /\ \A id \in Mixins \ {Arg} : Untouched(lastOp.this, id)
        /\ ~MovedHeldMixin =>
              /\ _mixin_data = lastOp.pre.mixin_data
              /\ lastOp.ev = NoEvents
              /\ lastOp.ret = NullCell
              /\ lastOp.raised =
                    IF Arg \in lastOp.pre.type_info[lastOp.this]
                      THEN "bad_mixin_move" ELSE "none"

\* a mixin was moved out of a buffer of its allocator, with a value that is
\* not the default one, and the buffer was returned
C17_Witness ==
    /\ MovedHeldMixin
    /\ lastOp.ret.buffer = "heap"
    /\ lastOp.ret.value # DefaultValue
    /\ Now(lastOp.this, Arg).value = lastOp.ret.value

\* copy_from went through change_type_from with the source's mixin data
RetypedFromSource == lastOp.kind = "copy_from" /\ lastOp.res # "none"

\* the mixins the retype constructs, and those it keeps
Added == lastOp.pre.type_info[lastOp.o] \ lastOp.pre.type_info[lastOp.this]
Shared == lastOp.pre.type_info[lastOp.o] \cap lastOp.pre.type_info[lastOp.this]

\* C16: change_type_from with a source returns bad_copy_construct iff a mixin
\* it constructs has no copy_constructor, otherwise bad_assign iff a mixin of
\* both types has no copy_assignment, otherwise success; a kept mixin without
\* copy_assignment keeps its value and is neither destroyed nor constructed,
\* and every other mixin is still assigned, constructed or destroyed.
C16_StatusPrecedence ==
    RetypedFromSource =>
        /\ lastOp.res =
              IF \E id \in Added : ~caps[id].copy_constructor
                THEN "bad_copy_construct"
              ELSE IF \E id \in Shared : ~caps[id].copy_assignment
                THEN "bad_assign"
              ELSE "success"
        /\ \A id \in Shared :
              IF caps[id].copy_assignment
                THEN /\ Now(lastOp.this, id).value = Now(lastOp.o, id).value
                     /\ Ev(lastOp.this, id) =
                           [k \in EventKinds |-> IF k = "copy_assign" THEN 1 ELSE 0]
                ELSE /\ Now(lastOp.this, id).value = Before(lastOp.this, id).value
                     /\ Untouched(lastOp.this, id)
        /\ \A id \in Added :
              /\ Ev(lastOp.this, id).alloc = 1
              /\ Ev(lastOp.this, id).construct + Ev(lastOp.this, id).copy_construct = 1
              /\ Ev(lastOp.this, id).copy_construct = 1 <=> caps[id].copy_constructor
        /\ \A id \in lastOp.pre.type_info[lastOp.this] \ lastOp.pre.type_info[lastOp.o] :
              /\ Ev(lastOp.this, id).destroy = 1
              /\ Ev(lastOp.this, id).dealloc = 1

\* a kept mixin without copy_assignment kept a value that is not the
\* source's, and the status is bad_copy_construct because a constructed mixin
\* has no copy_constructor
C16_Witness ==
    /\ RetypedFromSource
    /\ lastOp.res = "bad_copy_construct"
    /\ \E id \in Shared :
          /\ ~caps[id].copy_assignment
          /\ Now(lastOp.this, id).value # Now(lastOp.o, id).value
    /\ \E id \in Shared : caps[id].copy_assignment

\* copy_from between two objects of one type
SameType == lastOp.pre.type_info[lastOp.this]

MatchingCopy ==
    /\ lastOp.kind = "copy_from"
    /\ lastOp.this # lastOp.o
    /\ lastOp.pre.type_info[lastOp.o] = SameType

\* the mixins copy_matching_from reaches before one without copy_assignment
\* stops it: the first ones of _compact_mixins
Assigned == {id \in SameType : \A j \in SameType : j <= id => caps[j].copy_assignment}

\* no buffer and no array was allocated or deallocated, no mixin constructed
\* or destroyed
NothingBuiltOrTorn ==
    /\ lastOp.arr = NoArr
    /\ \A x \in Objects, id \in Mixins :
          \A k \in EventKinds \ {"copy_assign"} : Ev(x, id)[k] = 0

\* every cell of the array of x has the buffer and the back-pointer it had
CellArrayKept(x) ==
    /\ _mixin_data[x].sentinel = lastOp.pre.mixin_data[x].sentinel
    /\ DOMAIN _mixin_data[x].cells = DOMAIN lastOp.pre.mixin_data[x].cells
    /\ \A i \in DOMAIN _mixin_data[x].cells :
          _mixin_data[x].cells[i] =
              [lastOp.pre.mixin_data[x].cells[i] EXCEPT
                  !.value = _mixin_data[x].cells[i].value]

\* C18: copy_from between two distinct objects of one type copy-assigns the
\* mixins in the order of _compact_mixins, allocates, constructs and destroys
\* nothing and changes no counter, leaves the destination's type and cell
\* array as they were, throws bad_copy_assignment if a mixin has no
\* copy_assignment; copy_from of the object itself changes nothing.
C18_MatchingCopyAssignsInPlace ==
    /\ MatchingCopy =>
          /\ lastOp.trace = [i \in 1..Cardinality(Assigned) |->
                               <<"copy_assign", compact_mixins(SameType)[i]>>]
          /\ \A id \in Assigned :
                Now(lastOp.this, id).value = Now(lastOp.o, id).value
          /\ \A id \in SameType \ Assigned :
                Now(lastOp.this, id).value = Before(lastOp.this, id).value
          /\ NothingBuiltOrTorn
          /\ DescriptorAndCountersKept
          /\ CellArrayKept(lastOp.this)
          /\ _mixin_data[lastOp.o] = lastOp.pre.mixin_data[lastOp.o]
          /\ lastOp.raised = IF Assigned = SameType THEN "none"
                                                    ELSE "bad_copy_assignment"
    /\ (lastOp.kind = "copy_from" /\ lastOp.this = lastOp.o) =>
          /\ _mixin_data = lastOp.pre.mixin_data
          /\ DescriptorAndCountersKept
          /\ lastOp.trace = <<>>
          /\ lastOp.raised = "none"

\* one change_type_from ran: change_type, or copy_from between two types
Retyped == lastOp.kind = "change_type" \/ RetypedFromSource

\* the steps of the last call, in the order they were taken
Trace == lastOp.trace
Removal == {"destroy", "dealloc", "dealloc_mixin_data", "release_type",
            "acquire_type", "set_type"}
Construction == {"alloc", "construct", "copy_construct"}

\* the steps of kind k come in the order the mixins have in type
InOrderOf(k, type) ==
    \A i \in DOMAIN Trace :
        Trace[i][1] = k =>
            \A j \in (i + 1)..Len(Trace) :
                Trace[j][1] = k =>
                    mixin_index(type, Trace[i][2]) < mixin_index(type, Trace[j][2])

\* C19: in one change_type_from every destruction of a mixin the new type
\* lacks, the deallocation of the old array, the counter updates and the
\* assignment of _type_info and _mixin_data come before every construction
\* of a mixin the old type lacked; the destructions follow the old type's
\* _compact_mixins, the constructions the new type's.
C19_DestroyThenSwitchThenConstruct ==
    Retyped =>
        /\ \A j \in DOMAIN Trace :
              Trace[j][1] \in Construction =>
                  \A i \in j..Len(Trace) : Trace[i][1] \notin Removal
        /\ InOrderOf("destroy", lastOp.pre.type_info[lastOp.this])
        /\ InOrderOf("construct", _type_info[lastOp.this])
        /\ InOrderOf("copy_construct", _type_info[lastOp.this])
        /\ {Trace[i][2] : i \in {j \in DOMAIN Trace : Trace[j][1] = "destroy"}} =
              lastOp.pre.type_info[lastOp.this] \ _type_info[lastOp.this]
        /\ {Trace[i][2] : i \in {j \in DOMAIN Trace : Trace[j][1] \in
                                    {"construct", "copy_construct"}}} =
              _type_info[lastOp.this] \ lastOp.pre.type_info[lastOp.this]
        /\ \E i \in DOMAIN Trace : Trace[i][1] = "set_type"

\* two mixins were destroyed, the old array released and two constructed
C19_Witness ==
    /\ lastOp.kind = "change_type"
    /\ Cardinality({i \in DOMAIN Trace : Trace[i][1] = "destroy"}) >= 2
    /\ Cardinality({i \in DOMAIN Trace : Trace[i][1] = "construct"}) >= 1
    /\ \E i \in DOMAIN Trace : Trace[i][1] = "dealloc_mixin_data"
    /\ \E i \in DOMAIN Trace : Trace[i][1] = "release_type"
    /\ \E i \in DOMAIN Trace : Trace[i][1] = "acquire_type"

\* C20: every buffer a mixin allocator supplied is deallocated through that
\* same allocator, also after a move or a copy has replaced or dropped the
\* object's allocator: no call hands a buffer to an allocator other than the
\* one it came from.
C20_DeallocatedBySupplier ==
    \A x \in Objects, id \in Mixins : Ev(x, id).foreign_dealloc = 0
====
